---- MODULE Spec2Model ----
(***************************************************************************)
(* Model of the v4l2 MJPEG streamer (src/unnamed/part_001): the frame      *)
(* store FrameBuffer, the production loop captureFrames, the /stream       *)
(* handlers of startHTTPServer, the notification channel                   *)
(* newFrameNotifyChan, the activeClients counter and the command loop      *)
(* listenStdin with its CAPTURE command.                                   *)
(*                                                                         *)
(* Goroutines are interleaved one shared-memory access per step.  The      *)
(* capture device, the HTTP clients and stdin are the environment.         *)
(***************************************************************************)
EXTENDS Integers, Sequences, FiniteSets, TLC

----------------------------------------------------------------------------
(* Bounds of the model *)

\* number of frames the capture device delivers before it stalls
MaxFrames == 2
\* number of arguments a SET_CONTROL line carries at most
MaxArgs == 3
\* number of concurrent /stream connections
NumHandlers == 2

----------------------------------------------------------------------------
(* Program constants *)

ExitCodeNormal == 0
ExitCodeGenericError == 1
ExitCodeUSBError == 2
\* capacity of newFrameNotifyChan: make(chan struct{}, 1)
NotifyCap == 1

\* no os.Exit yet: the process is running
Running == -1

Handlers == 1..NumHandlers

----------------------------------------------------------------------------
(* Byte slices.  A Go []byte is nil or a (possibly empty) byte sequence.   *)

NilSlice == [isNil |-> TRUE, bytes |-> <<>>]
Slice(b) == [isNil |-> FALSE, bytes |-> b]

\* make([]byte, n): a zero-filled buffer of n bytes
RECURSIVE Zeros(_)
Zeros(n) == IF n = 0 THEN <<>> ELSE <<0>> \o Zeros(n - 1)
MakeBytes(n) == Slice(Zeros(n))

\* first byte of a well-formed JPEG in the model (start-of-image marker)
SOI == 1
\* the fixed tables the stdlib encoder writes in front of the scan data
EncoderHeader == <<SOI, 2, 2, 2, 2, 2, 2, 2, 2>>

\* frames the capture device can deliver (frame.Data): two decodable
\* frames and one corrupt frame the decoder rejects
FrameA == <<SOI, 5, 6>>
FrameB == <<SOI, 7, 8, 9, 7>>
FrameBad == <<3, 5>>
CameraFrames == {FrameA, FrameB, FrameBad}

\* the scaled decode keeps every second byte of the scan data
RECURSIVE Downscale(_)
Downscale(s) ==
    IF Len(s) = 0 THEN <<>>
    ELSE IF Len(s) = 1 THEN <<s[1]>>
    ELSE <<s[1]>> \o Downscale(Tail(Tail(s)))

\* resizeMJPEGTurbo: decode with DCT scaling, re-encode.  The result is
\* NilSlice when the decoder returns an error.
resizeMJPEGTurbo(jpegData) ==
    IF Len(jpegData) = 0 \/ jpegData[1] # SOI
    THEN NilSlice
    ELSE Slice(EncoderHeader \o Downscale(Tail(jpegData)))

----------------------------------------------------------------------------
(* Formatting of the multipart chunk *)

\* fmt's %d of a non-negative int: the decimal digits, most significant first
RECURSIVE FormatInt(_)
FormatInt(n) == IF n < 10 THEN <<n>> ELSE FormatInt(n \div 10) \o <<n % 10>>

\* value of a sequence of decimal digits
RECURSIVE ParseInt(_)
ParseInt(d) == IF Len(d) = 0 THEN 0 ELSE 10 * ParseInt(SubSeq(d, 1, Len(d) - 1)) + d[Len(d)]

Lit(s) == [t |-> "lit", s |-> s, d |-> <<>>, b |-> <<>>]
Num(d) == [t |-> "num", s |-> "", d |-> d, b |-> <<>>]
Raw(b) == [t |-> "raw", s |-> "", d |-> <<>>, b |-> b]
FlushMark == [t |-> "flush", s |-> "", d |-> <<>>, b |-> <<>>]

\* the value printed in the Content-Length header: len(frame)
ContentLengthTrailer(frame) == Len(frame) + 2
ContentLength(frame) == Len(frame)

\* the five writes of one chunk, in program order; a write is a sequence
\* of tokens
ChunkWrites(frame) ==
    << <<Lit("--frame\r\n")>>,
       <<Lit("Content-Type: image/jpeg\r\n")>>,
       <<Lit("Content-Length: "), Num(FormatInt(ContentLength(frame))), Lit("\r\n\r\n")>>,
       <<Raw(frame)>>,
       <<Lit("\r\n")>> >>

NumWrites == 5
\* index of w.Write(frame), the only write whose error is checked
FrameWrite == 4

RECURSIVE Concat(_, _)
\* the tokens that reach the connection when the first k writes succeed
Concat(ws, k) == IF k = 0 THEN <<>> ELSE Concat(ws, k - 1) \o ws[k]

----------------------------------------------------------------------------
VARIABLES
    \* environment
    produced,            \* frames the capture device has delivered
    frameChanClosed,     \* cam.GetFrames() channel has been closed
    \* process
    exitStatus,          \* Running, or the status the process ended with
    cancelled,           \* ctx has been cancelled
    \* FrameBuffer
    mu,                  \* sync.RWMutex: [writer, readers]
    currentFullFrame,
    currentSDFrame,
    \* globals
    activeClients,
    newFrameNotifyChan,  \* number of buffered notifications
    \* captureFrames goroutine
    pcCap,
    capFrame,            \* frame.Data of the frame being processed
    capSD,               \* resizedFrame
    released,            \* frame.Release() calls on the frame in hand
    \* /stream handlers
    pcH,
    connOK,              \* writes to the connection still succeed
    hFrame,              \* frame returned by GetSD
    lastChunk,           \* tokens of the latest chunk written on the connection
    \* main goroutine (listenStdin, saveFrame)
    pcMain,
    mainFrame,           \* frame returned by GetFull
    savedFile,           \* content of ~/Desktop/frame.jpeg
    ctlParts,            \* arguments of the latest SET_CONTROL line
    ctlOut,              \* messages written to stdout for that line
    ctlCalls,            \* cam.SetControlValue calls made for that line
    \* history variables
    doneFull,            \* full slot as of the last Update that returned
    doneSD,              \* viewer slot as of the last Update that returned
    want,                \* per reader inside a Get: what the last finished
                         \* Update had stored in the slot when RLock was taken
    lastOutcome,         \* what captureFrames did with the latest non-nil
                         \* frame it finished: "dropped" (no clients), "failed"
                         \* (resize error), "stored" (Update, notification
                         \* sent), "coalesced" (Update, notification pending)
    failedBefore,        \* the frame before that one failed to resize
    sdSeq,               \* position in the capture order of the frame in the
                         \* viewer slot (0: none)
    hSeq,                \* per handler: position in the capture order of the
                         \* latest frame it read on its connection (0: none)
                         \* Both are NotRecorded in the behaviours that do
                         \* not record the capture order.
    tally,               \* counts since the start: Update calls that returned,
                         \* notifications sent, notifications received, chunks
                         \* written; counted in the same behaviours only
    \* the frame store seen with the identity of every buffer
    heap,                \* bytes of each buffer, by address
    fullRef,             \* buffer fb.currentFullFrame points to (NilRef: nil)
    sdRef,               \* buffer fb.currentSDFrame points to
    gotRef,              \* per caller: the buffer its last Get returned
    storedFull,          \* history: the bytes given to the last Update
    storedSD,
    gotVal,              \* history: per caller, the bytes its buffer should
                         \* hold (what Get returned, or what it wrote since)
    \* writeJSON
    stdoutMutex,         \* sync.Mutex: TRUE while locked
    pcW,                 \* per goroutine: where it is inside writeJSON
    wMsg,                \* per goroutine: the message of its current call
    wCount,              \* per goroutine: writeJSON calls made so far
    wWritten,            \* per goroutine: encoded bytes os.Stdout has taken
    stdoutBytes,         \* what has reached os.Stdout
    stderrLines          \* "FATAL: Failed to encode JSON" lines on os.Stderr

envVars == <<produced, frameChanClosed>>
procVars == <<exitStatus, cancelled>>
fbVars == <<mu, currentFullFrame, currentSDFrame>>
capVars == <<pcCap, capFrame, capSD, released>>
hVars == <<pcH, connOK, hFrame, lastChunk>>
mainVars == <<pcMain, mainFrame, savedFile, ctlParts, ctlOut, ctlCalls>>
heapVars == <<heap, fullRef, sdRef, gotRef, storedFull, storedSD, gotVal>>
stdoutVars == <<stdoutMutex, pcW, wMsg, wCount, wWritten, stdoutBytes, stderrLines>>
histVars == <<doneFull, doneSD, want, lastOutcome, failedBefore, sdSeq, hSeq, tally>>

vars == <<produced, frameChanClosed, exitStatus, cancelled,
          mu, currentFullFrame, currentSDFrame, activeClients, newFrameNotifyChan,
          pcCap, capFrame, capSD, released, pcH, connOK, hFrame, lastChunk,
          pcMain, mainFrame, savedFile, ctlParts, ctlOut, ctlCalls,
          doneFull, doneSD, want, lastOutcome, failedBefore, sdSeq, hSeq, tally,
          heap, fullRef, sdRef, gotRef, storedFull, storedSD, gotVal,
          stdoutMutex, pcW, wMsg, wCount, wWritten, stdoutBytes, stderrLines>>

NotRecorded == 0 - 1
\* a recorded position, if positions are recorded at all
Recorded(old, pos) == IF old = NotRecorded THEN NotRecorded ELSE pos

\* the counts, not kept or at their start; an event is counted when they
\* are kept
TallyOff == [on |-> FALSE, updates |-> 0, sends |-> 0, receives |-> 0, chunks |-> 0]
TallyZero == [on |-> TRUE, updates |-> 0, sends |-> 0, receives |-> 0, chunks |-> 0]
Count(t, event) == IF t.on THEN [t EXCEPT ![event] = @ + 1] ELSE t

Readers == Handlers \cup {0}   \* 0 is the main goroutine (saveFrame)

\* Buffer addresses.  frame.Data is a buffer of the device, which reuses
\* it after frame.Release(); the resized frame is the buffer of the
\* encoder's bytes.Buffer.  The other addresses are what make() hands out.
NilRef == 0
CamBuf == 1
ResizedBuf == 2
Addrs == 1..(NumHandlers + 5)

\* the goroutines that call writeJSON and logJSON: the production loop,
\* a /stream handler, the command loop
Writers == {"captureFrames", "stream", "listenStdin"}
MaxMessages == 1
NoMsg == [type |-> "none", from |-> "none", n |-> 0]

StdoutInit ==
    /\ stdoutMutex = FALSE
    /\ pcW = [g \in Writers |-> "idle"]
    /\ wMsg = [g \in Writers |-> NoMsg]
    /\ wCount = [g \in Writers |-> 0]
    /\ wWritten = [g \in Writers |-> 0]
    /\ stdoutBytes = <<>>
    /\ stderrLines = 0

HeapInit ==
    /\ heap = [a \in Addrs |-> <<>>]
    /\ fullRef = NilRef
    /\ sdRef = NilRef
    /\ gotRef = [c \in Readers |-> NilRef]
    /\ storedFull = NilSlice
    /\ storedSD = NilSlice
    /\ gotVal = [c \in Readers |-> NilSlice]

Init ==
    /\ produced = 0
    /\ frameChanClosed = FALSE
    /\ exitStatus = Running
    /\ cancelled = FALSE
    /\ mu = [writer |-> FALSE, readers |-> 0]
    /\ currentFullFrame = NilSlice
    /\ currentSDFrame = NilSlice
    /\ activeClients = 0
    /\ newFrameNotifyChan = 0
    /\ pcCap = "select"
    /\ capFrame = <<>>
    /\ capSD = NilSlice
    /\ released = 0
    /\ pcH = [h \in Handlers |-> "idle"]
    /\ connOK = [h \in Handlers |-> TRUE]
    /\ hFrame = [h \in Handlers |-> NilSlice]
    /\ lastChunk = [h \in Handlers |-> <<>>]
    /\ pcMain = "scan"
    /\ mainFrame = NilSlice
    /\ savedFile = NilSlice
    /\ ctlParts = <<>>
    /\ ctlOut = <<>>
    /\ ctlCalls = <<>>
    /\ doneFull = NilSlice
    /\ doneSD = NilSlice
    /\ want = [r \in Readers |-> NilSlice]
    /\ lastOutcome = "none"
    /\ failedBefore = FALSE
    /\ sdSeq = NotRecorded
    /\ hSeq = [h \in Handlers |-> NotRecorded]
    /\ tally = TallyOff
    /\ HeapInit
    /\ StdoutInit

Alive == exitStatus = Running

\* os.Exit(code), or the return of main: the process ends with this status
\* and its goroutines and memory are gone; the device and the fact that
\* cancellation was requested remain
ProcessExit(code) ==
    /\ exitStatus' = code
    /\ mu' = [writer |-> FALSE, readers |-> 0]
    /\ currentFullFrame' = NilSlice
    /\ currentSDFrame' = NilSlice
    /\ activeClients' = 0
    /\ newFrameNotifyChan' = 0
    /\ pcCap' = "gone"
    /\ capFrame' = <<>>
    /\ capSD' = NilSlice
    /\ released' = 0
    /\ pcH' = [h \in Handlers |-> "gone"]
    /\ connOK' = [h \in Handlers |-> TRUE]
    /\ hFrame' = [h \in Handlers |-> NilSlice]
    /\ lastChunk' = [h \in Handlers |-> <<>>]
    /\ pcMain' = "gone"
    /\ mainFrame' = NilSlice
    /\ savedFile' = savedFile
    /\ ctlParts' = <<>>
    /\ ctlOut' = <<>>
    /\ ctlCalls' = <<>>
    /\ doneFull' = NilSlice
    /\ doneSD' = NilSlice
    /\ want' = [r \in Readers |-> NilSlice]
    /\ lastOutcome' = "none"
    /\ failedBefore' = FALSE
    /\ sdSeq' = Recorded(sdSeq, 0)
    /\ hSeq' = [h \in Handlers |-> Recorded(sdSeq, 0)]
    /\ tally' = tally
    /\ UNCHANGED <<produced, frameChanClosed, cancelled>>
    /\ UNCHANGED <<heapVars, stdoutVars>>

----------------------------------------------------------------------------
(* sync.RWMutex *)

LockAvailable(m) == ~m.writer /\ m.readers = 0
RLockAvailableNoWait(m) == TRUE
RLockAvailable(m) == ~m.writer


\* copy(dst, src): the first min(len(dst), len(src)) bytes of src overwrite
\* the start of dst; a nil dst has length 0 and stays nil
CopyNothing(dst, src) == dst
CopyInto(dst, src) ==
    IF dst.isNil THEN dst
    ELSE LET n == IF Len(dst.bytes) < Len(src) THEN Len(dst.bytes) ELSE Len(src)
         IN  Slice(SubSeq(src, 1, n) \o SubSeq(dst.bytes, n + 1, Len(dst.bytes)))

\* make + copy of a Get: nil stays nil, otherwise a fresh buffer with the
\* slot's bytes
CopyOfZeroed(slot) == IF slot.isNil THEN NilSlice ELSE MakeBytes(Len(slot.bytes))
CopyOf(slot) == IF slot.isNil THEN NilSlice ELSE CopyInto(MakeBytes(Len(slot.bytes)), slot.bytes)

----------------------------------------------------------------------------
(* Environment: the capture device *)

\* the device disappears (or the stream is stopped): the frame channel
\* closes.  captureFrames looks at the channel only in its select, so the
\* close is taken while it waits there.
DeviceLost ==
    /\ Alive
    /\ pcCap = "select"
    /\ ~frameChanClosed
    /\ frameChanClosed' = TRUE
    /\ UNCHANGED <<produced, procVars, fbVars, activeClients,
                   newFrameNotifyChan, capVars, hVars, mainVars, histVars>>
    /\ UNCHANGED <<heapVars, stdoutVars>>

----------------------------------------------------------------------------
(* captureFrames *)

\* clientCount > 0
HasClientsAlways(clientCount) == clientCount >= 0
HasClients(clientCount) == clientCount > 0

\* select { case newFrameNotifyChan <- struct{}{}: default: } on the number
\* of buffered notifications
NotifySendQueued(n) == n + 1
NotifySendNever(n) == n
NotifySend(n) == IF n < NotifyCap THEN n + 1 ELSE n

\* <-ctx.Done() is ready once the context is cancelled
CtxDoneNever(c) == FALSE
CtxDone(c) == c

\* case <-ctx.Done(): return
CaptureCancelled ==
    /\ Alive
    /\ pcCap = "select"
    /\ CtxDone(cancelled)
    /\ pcCap' = "returned"
    /\ UNCHANGED <<envVars, procVars, fbVars, activeClients, newFrameNotifyChan,
                   capFrame, capSD, released, hVars, mainVars, histVars>>
    /\ UNCHANGED <<heapVars, stdoutVars>>

\* if !ok { logJSON(...); os.Exit(ExitCodeUSBError) }
OnFrameChanClosedReturn ==
    /\ pcCap' = "returned"
    /\ UNCHANGED <<envVars, procVars, fbVars, activeClients, newFrameNotifyChan,
                   capFrame, capSD, released, hVars, mainVars, histVars>>
    /\ UNCHANGED <<heapVars, stdoutVars>>
OnFrameChanClosed == ProcessExit(ExitCodeUSBError)

\* case frame, ok := <-frameChan with the channel closed
CaptureRecvClosed ==
    /\ Alive
    /\ pcCap = "select"
    /\ frameChanClosed
    /\ OnFrameChanClosed

\* case frame, ok := <-frameChan with a frame delivered; a nil frame is
\* skipped
CaptureRecv ==
    /\ Alive
    /\ pcCap = "select"
    /\ ~frameChanClosed
    /\ produced < MaxFrames
    /\ produced' = produced + 1
    /\ \/ UNCHANGED <<pcCap, capFrame, released>>
       \/ \E f \in CameraFrames :
             /\ pcCap' = "gate"
             /\ capFrame' = f
             /\ released' = 0
    /\ UNCHANGED <<frameChanClosed, procVars, fbVars, activeClients,
                   newFrameNotifyChan, capSD, hVars, mainVars, histVars>>
    /\ UNCHANGED <<heapVars, stdoutVars>>

\* the same receive with the device streaming without end: the frames are
\* not counted, and they are one decodable frame and the corrupt one
SteadyFrames == {FrameA, FrameBad}
CaptureRecvUncounted ==
    /\ Alive
    /\ pcCap = "select"
    /\ ~frameChanClosed
    /\ \/ UNCHANGED <<pcCap, capFrame, released>>
       \/ \E f \in SteadyFrames :
             /\ pcCap' = "gate"
             /\ capFrame' = f
             /\ released' = 0
    /\ UNCHANGED <<envVars, procVars, fbVars, activeClients,
                   newFrameNotifyChan, capSD, hVars, mainVars, histVars>>
    /\ UNCHANGED <<heapVars, stdoutVars>>

\* frame.Release(): the buffer goes back to the device, once per call
ReleaseSkipped(n) == n
Release(n) == n + 1

\* resize failed: log, frame.Release(), continue
OnResizeErrorStop ==
    /\ pcCap' = "returned"
    /\ capFrame' = <<>>
    /\ released' = Release(released)
    /\ UNCHANGED <<capSD, fbVars, newFrameNotifyChan>>
OnResizeErrorStoresAnyway ==
    /\ pcCap' = "update"
    /\ capSD' = NilSlice
    /\ UNCHANGED <<capFrame, released, fbVars, newFrameNotifyChan>>
OnResizeError ==
    /\ pcCap' = "select"
    /\ capFrame' = <<>>
    /\ released' = Release(released)
    /\ UNCHANGED <<capSD, fbVars, newFrameNotifyChan>>

\* clientCount := atomic.LoadInt32(&activeClients); if clientCount > 0 the
\* frame is resized, otherwise it is released and dropped
CaptureGate ==
    /\ Alive
    /\ pcCap = "gate"
    /\ IF HasClients(activeClients)
       THEN IF resizeMJPEGTurbo(capFrame).isNil
            THEN /\ OnResizeError
                 /\ lastOutcome' = "failed"
                 /\ failedBefore' = (lastOutcome = "failed")
            ELSE /\ capSD' = resizeMJPEGTurbo(capFrame)
                 /\ pcCap' = "update"
                 /\ UNCHANGED <<capFrame, released, lastOutcome, failedBefore,
                                fbVars, newFrameNotifyChan>>
       ELSE /\ pcCap' = "select"
            /\ capFrame' = <<>>
            /\ released' = Release(released)
            /\ lastOutcome' = "dropped"
            /\ failedBefore' = (lastOutcome = "failed")
            /\ UNCHANGED <<capSD, fbVars, newFrameNotifyChan>>
    /\ UNCHANGED <<envVars, procVars, activeClients, hVars, mainVars,
                   doneFull, doneSD, want, sdSeq, hSeq, tally>>
    /\ UNCHANGED <<heapVars, stdoutVars>>

\* FrameBuffer.Update: fb.mu.Lock();
\* fb.currentFullFrame = make([]byte, len(frameFull))
UpdateLockNoMake ==
    /\ Alive
    /\ pcCap = "update"
    /\ LockAvailable(mu)
    /\ mu' = [mu EXCEPT !.writer = TRUE]
    /\ pcCap' = "copyFull"
    /\ UNCHANGED <<envVars, procVars, currentFullFrame, currentSDFrame, activeClients,
                   newFrameNotifyChan, capFrame, capSD, released, hVars, mainVars, histVars>>
    /\ UNCHANGED <<heapVars, stdoutVars>>
UpdateLock ==
    /\ Alive
    /\ pcCap = "update"
    /\ LockAvailable(mu)
    /\ mu' = [mu EXCEPT !.writer = TRUE]
    /\ currentFullFrame' = MakeBytes(Len(capFrame))
    /\ pcCap' = "copyFull"
    /\ UNCHANGED <<envVars, procVars, currentSDFrame, activeClients,
                   newFrameNotifyChan, capFrame, capSD, released, hVars, mainVars, histVars>>
    /\ UNCHANGED <<heapVars, stdoutVars>>

\* copy(fb.currentFullFrame, frameFull);
\* if frameSD != nil { fb.currentSDFrame = make([]byte, len(frameSD))
UpdateCopyFullUnlocks ==
    /\ Alive
    /\ pcCap = "copyFull"
    /\ currentFullFrame' = CopyInto(currentFullFrame, capFrame)
    /\ currentSDFrame' = IF capSD.isNil THEN currentSDFrame
                         ELSE MakeBytes(Len(capSD.bytes))
    /\ pcCap' = "copySD"
    /\ mu' = [mu EXCEPT !.writer = FALSE]
    /\ UNCHANGED <<envVars, procVars, activeClients,
                   newFrameNotifyChan, capFrame, capSD, released, hVars, mainVars, histVars>>
    /\ UNCHANGED <<heapVars, stdoutVars>>
UpdateCopyFull ==
    /\ Alive
    /\ pcCap = "copyFull"
    /\ currentFullFrame' = CopyInto(currentFullFrame, capFrame)
    /\ currentSDFrame' = IF capSD.isNil THEN currentSDFrame
                         ELSE MakeBytes(Len(capSD.bytes))
    /\ pcCap' = "copySD"
    /\ UNCHANGED <<envVars, procVars, mu, activeClients,
                   newFrameNotifyChan, capFrame, capSD, released, hVars, mainVars, histVars>>
    /\ UNCHANGED <<heapVars, stdoutVars>>

\* handlers that are inside their streaming loop
InLoop(h) == pcH[h] \in {"wait", "rlock", "read", "write"}

\* copy(fb.currentSDFrame, frameSD) }; the deferred fb.mu.Unlock(): Update
\* returns
UpdateCopySD ==
    /\ Alive
    /\ pcCap = "copySD"
    /\ currentSDFrame' = IF capSD.isNil THEN currentSDFrame
                         ELSE CopyInto(currentSDFrame, capSD.bytes)
    /\ mu' = [mu EXCEPT !.writer = FALSE]
    /\ pcCap' = "notify"
    /\ doneFull' = Slice(capFrame)
    /\ doneSD' = IF capSD.isNil THEN doneSD ELSE capSD
    /\ sdSeq' = IF capSD.isNil THEN sdSeq ELSE Recorded(sdSeq, produced)
    /\ UNCHANGED <<envVars, procVars, currentFullFrame, activeClients,
                   newFrameNotifyChan, capFrame, capSD, released, hVars, mainVars,
                   want, lastOutcome, failedBefore, hSeq>>
    /\ tally' = Count(tally, "updates")
    /\ UNCHANGED <<heapVars, stdoutVars>>

\* the non-blocking send on newFrameNotifyChan, then frame.Release()
CaptureNotify ==
    /\ Alive
    /\ pcCap = "notify"
    /\ newFrameNotifyChan' = NotifySend(newFrameNotifyChan)
    /\ pcCap' = "select"
    /\ capFrame' = <<>>
    /\ capSD' = NilSlice
    /\ released' = Release(released)
    /\ lastOutcome' = IF newFrameNotifyChan < NotifyCap THEN "stored" ELSE "coalesced"
    /\ failedBefore' = (lastOutcome = "failed")
    /\ tally' = IF newFrameNotifyChan < NotifyCap THEN Count(tally, "sends") ELSE tally
    /\ UNCHANGED <<envVars, procVars, fbVars, activeClients, hVars, mainVars,
                   doneFull, doneSD, want, sdSeq, hSeq>>
    /\ UNCHANGED <<heapVars, stdoutVars>>

----------------------------------------------------------------------------
(* The /stream handler of startHTTPServer *)

\* the deferred atomic.AddInt32(&activeClients, -1)
DetachLeak(count) == count
DetachAll(count) == 0
Detach(count) == count - 1

\* a request arrives: count := atomic.AddInt32(&activeClients, 1)
Attach(h) ==
    /\ Alive
    /\ pcH[h] = "idle"
    /\ activeClients' = activeClients + 1
    /\ pcH' = [pcH EXCEPT ![h] = "check"]
    /\ connOK' = [connOK EXCEPT ![h] = TRUE]
    /\ UNCHANGED <<envVars, procVars, fbVars, newFrameNotifyChan, capVars,
                   hFrame, lastChunk, mainVars, histVars>>
    /\ UNCHANGED <<heapVars, stdoutVars>>

\* flusher, ok := w.(http.Flusher); if !ok { http.Error(...); return }:
\* whether the ResponseWriter is a Flusher is up to the server
CheckFlusher(h) ==
    /\ Alive
    /\ pcH[h] = "check"
    /\ \E ok \in BOOLEAN :
          IF ok
          THEN /\ pcH' = [pcH EXCEPT ![h] = "wait"]
               /\ UNCHANGED activeClients
          ELSE /\ pcH' = [pcH EXCEPT ![h] = "idle"]
               /\ activeClients' = Detach(activeClients)
    /\ UNCHANGED <<envVars, procVars, fbVars, newFrameNotifyChan, capVars,
                   connOK, hFrame, lastChunk, mainVars, histVars>>
    /\ UNCHANGED <<heapVars, stdoutVars>>

\* for range newFrameNotifyChan: one buffered notification is received
RecvNotifyLeavesIt(h) ==
    /\ Alive
    /\ pcH[h] = "wait"
    /\ newFrameNotifyChan > 0
    /\ pcH' = [pcH EXCEPT ![h] = "rlock"]
    /\ lastChunk' = [lastChunk EXCEPT ![h] = <<>>]
    /\ tally' = Count(tally, "receives")
    /\ UNCHANGED <<envVars, procVars, fbVars, activeClients, newFrameNotifyChan, capVars,
                   connOK, hFrame, mainVars,
                   doneFull, doneSD, want, lastOutcome, failedBefore, sdSeq, hSeq>>
    /\ UNCHANGED <<heapVars, stdoutVars>>
RecvNotify(h) ==
    /\ Alive
    /\ pcH[h] = "wait"
    /\ newFrameNotifyChan > 0
    /\ newFrameNotifyChan' = newFrameNotifyChan - 1
    /\ pcH' = [pcH EXCEPT ![h] = "rlock"]
    /\ lastChunk' = [lastChunk EXCEPT ![h] = <<>>]
    /\ tally' = Count(tally, "receives")
    /\ UNCHANGED <<envVars, procVars, fbVars, activeClients, capVars,
                   connOK, hFrame, mainVars,
                   doneFull, doneSD, want, lastOutcome, failedBefore, sdSeq, hSeq>>
    /\ UNCHANGED <<heapVars, stdoutVars>>

\* FrameBuffer.GetSD: fb.mu.RLock()
GetSDRLock(h) ==
    /\ Alive
    /\ pcH[h] = "rlock"
    /\ RLockAvailable(mu)
    /\ mu' = [mu EXCEPT !.readers = @ + 1]
    /\ pcH' = [pcH EXCEPT ![h] = "read"]
    /\ want' = [want EXCEPT ![h] = doneSD]
    /\ UNCHANGED <<envVars, procVars, currentFullFrame, currentSDFrame, activeClients,
                   newFrameNotifyChan, capVars, connOK, hFrame, lastChunk,
                   mainVars, doneFull, doneSD, lastOutcome, failedBefore, sdSeq, hSeq, tally>>
    /\ UNCHANGED <<heapVars, stdoutVars>>

\* if frame == nil { continue }: where the handler goes with the frame
\* GetSD returned
AfterGetSDAlwaysWrites(frame) == "write"
AfterGetSD(frame) == IF frame.isNil THEN "wait" ELSE "write"

\* FrameBuffer.GetSD: the copy of currentSDFrame and the deferred RUnlock;
\* if frame == nil { continue }
GetSDReadKeepsLock(h) ==
    /\ Alive
    /\ pcH[h] = "read"
    /\ hFrame' = [hFrame EXCEPT ![h] = CopyOf(currentSDFrame)]
    /\ want' = [want EXCEPT ![h] = NilSlice]
    /\ pcH' = [pcH EXCEPT ![h] = AfterGetSD(currentSDFrame)]
    /\ hSeq' = [hSeq EXCEPT ![h] = IF currentSDFrame.isNil THEN @ ELSE sdSeq]
    /\ UNCHANGED <<envVars, procVars, fbVars, activeClients,
                   newFrameNotifyChan, capVars, connOK, lastChunk,
                   mainVars, doneFull, doneSD, lastOutcome, failedBefore, sdSeq, tally>>
    /\ UNCHANGED <<heapVars, stdoutVars>>
GetSDRead(h) ==
    /\ Alive
    /\ pcH[h] = "read"
    /\ hFrame' = [hFrame EXCEPT ![h] = CopyOf(currentSDFrame)]
    /\ mu' = [mu EXCEPT !.readers = @ - 1]
    /\ want' = [want EXCEPT ![h] = NilSlice]
    /\ pcH' = [pcH EXCEPT ![h] = AfterGetSD(currentSDFrame)]
    /\ hSeq' = [hSeq EXCEPT ![h] = IF currentSDFrame.isNil THEN @ ELSE sdSeq]
    /\ UNCHANGED <<envVars, procVars, currentFullFrame, currentSDFrame, activeClients,
                   newFrameNotifyChan, capVars, connOK, lastChunk,
                   mainVars, doneFull, doneSD, lastOutcome, failedBefore, sdSeq, tally>>
    /\ UNCHANGED <<heapVars, stdoutVars>>

\* The five writes of one chunk and the flush.  The first k writes reach
\* the client; the connection breaks at write k+1 (k = NumWrites: all
\* succeed) and every later write fails.  Only the error of w.Write(frame)
\* is checked: if it fails the handler returns and the deferred function
\* decrements activeClients.
WriteChunk(h) ==
    /\ Alive
    /\ pcH[h] = "write"
    /\ \E k \in 0..NumWrites :
          /\ connOK[h] \/ k = 0
          /\ IF k >= FrameWrite
             THEN /\ pcH' = [pcH EXCEPT ![h] = "wait"]
                  /\ lastChunk' = [lastChunk EXCEPT ![h] =
                                      Concat(ChunkWrites(hFrame[h].bytes), k) \o <<FlushMark>>]
                  /\ connOK' = [connOK EXCEPT ![h] = k = NumWrites]
                  /\ tally' = Count(tally, "chunks")
                  /\ UNCHANGED <<activeClients, hSeq>>
             ELSE /\ pcH' = [pcH EXCEPT ![h] = "idle"]
                  /\ lastChunk' = [lastChunk EXCEPT ![h] = <<>>]
                  /\ connOK' = [connOK EXCEPT ![h] = FALSE]
                  /\ activeClients' = Detach(activeClients)
                  /\ hSeq' = [hSeq EXCEPT ![h] = Recorded(sdSeq, 0)]
                  /\ UNCHANGED tally
    /\ hFrame' = [hFrame EXCEPT ![h] = NilSlice]
    /\ UNCHANGED <<envVars, procVars, fbVars, newFrameNotifyChan, capVars,
                   mainVars, doneFull, doneSD, want, lastOutcome, failedBefore, sdSeq>>
    /\ UNCHANGED <<heapVars, stdoutVars>>

\* environment: the client goes away while the handler waits for a frame;
\* later writes on the connection fail
Disconnect(h) ==
    /\ Alive
    /\ pcH[h] = "wait"
    /\ connOK[h]
    /\ connOK' = [connOK EXCEPT ![h] = FALSE]
    /\ UNCHANGED <<envVars, procVars, fbVars, activeClients, newFrameNotifyChan, capVars,
                   pcH, hFrame, lastChunk, mainVars,
                   doneFull, doneSD, want, lastOutcome, failedBefore, sdSeq, hSeq, tally>>
    /\ UNCHANGED <<heapVars, stdoutVars>>

----------------------------------------------------------------------------
(* main: listenStdin, saveFrame, and the return of main *)

\* scanner.Scan() reads a CAPTURE line: saveFrame calls GetFull, which
\* takes fb.mu.RLock()
GetFullRLock ==
    /\ Alive
    /\ pcMain = "scan"
    /\ RLockAvailable(mu)
    /\ mu' = [mu EXCEPT !.readers = @ + 1]
    /\ pcMain' = "saveRead"
    /\ want' = [want EXCEPT ![0] = doneFull]
    /\ UNCHANGED <<envVars, procVars, currentFullFrame, currentSDFrame, activeClients,
                   newFrameNotifyChan, capVars, hVars, mainFrame, savedFile,
                   ctlParts, ctlOut, ctlCalls,
                   doneFull, doneSD, lastOutcome, failedBefore, sdSeq, hSeq, tally>>
    /\ UNCHANGED <<heapVars, stdoutVars>>

\* FrameBuffer.GetFull: the copy of currentFullFrame and the deferred RUnlock
GetFullReadKeepsLock ==
    /\ Alive
    /\ pcMain = "saveRead"
    /\ mainFrame' = CopyOf(currentFullFrame)
    /\ want' = [want EXCEPT ![0] = NilSlice]
    /\ pcMain' = "saveWrite"
    /\ UNCHANGED <<envVars, procVars, fbVars, activeClients,
                   newFrameNotifyChan, capVars, hVars, savedFile,
                   ctlParts, ctlOut, ctlCalls,
                   doneFull, doneSD, lastOutcome, failedBefore, sdSeq, hSeq, tally>>
    /\ UNCHANGED <<heapVars, stdoutVars>>
GetFullRead ==
    /\ Alive
    /\ pcMain = "saveRead"
    /\ mainFrame' = CopyOf(currentFullFrame)
    /\ mu' = [mu EXCEPT !.readers = @ - 1]
    /\ want' = [want EXCEPT ![0] = NilSlice]
    /\ pcMain' = "saveWrite"
    /\ UNCHANGED <<envVars, procVars, currentFullFrame, currentSDFrame, activeClients,
                   newFrameNotifyChan, capVars, hVars, savedFile,
                   ctlParts, ctlOut, ctlCalls,
                   doneFull, doneSD, lastOutcome, failedBefore, sdSeq, hSeq, tally>>
    /\ UNCHANGED <<heapVars, stdoutVars>>

\* saveFrame after GetFull: a nil frame is only logged; otherwise
\* os.WriteFile stores the frame, unless the home directory lookup or the
\* write fails
SaveWrite ==
    /\ Alive
    /\ pcMain = "saveWrite"
    /\ pcMain' = "scan"
    /\ mainFrame' = NilSlice
    /\ IF mainFrame.isNil
       THEN UNCHANGED savedFile
       ELSE \E ok \in BOOLEAN : savedFile' = IF ok THEN mainFrame ELSE savedFile
    /\ UNCHANGED <<envVars, procVars, fbVars, activeClients, newFrameNotifyChan,
                   capVars, hVars, ctlParts, ctlOut, ctlCalls, histVars>>
    /\ UNCHANGED <<heapVars, stdoutVars>>

\* Characters of a command argument: a digit is its value; the two other
\* characters stand for '-' and for a letter
Minus == 10
Letter == 11
IsDigit(c) == c \in 0..9

\* arguments a SET_CONTROL line can carry (strings.Fields never yields an
\* empty one): "5", "12", "x", "5x", "-3"
ArgStrings == {<<5>>, <<1, 2>>, <<Letter>>, <<5, Letter>>, <<Minus, 3>>}
\* the argument lists after the command word, up to MaxArgs arguments
ControlLines == UNION {[1..n -> ArgStrings] : n \in 0..MaxArgs}

\* the run of digits fmt's scanNumber takes from the front of the input
RECURSIVE DigitPrefix(_)
DigitPrefix(str) ==
    IF Len(str) = 0 \/ ~IsDigit(str[1]) THEN <<>>
    ELSE <<str[1]>> \o DigitPrefix(Tail(str))

\* fmt.Sscanf(str, "%d", &v) with v a uint32: no sign is accepted, the
\* leading digits are converted, and input left over after them is not an
\* error.  (The arguments of the model are too short to overflow.)
SscanfUint(str) ==
    LET tok == DigitPrefix(str)
    IN  IF Len(tok) = 0 THEN [ok |-> FALSE, val |-> 0]
        ELSE [ok |-> TRUE, val |-> ParseInt(tok)]

\* fmt.Sscanf(str, "%d", &v) with v an int32: an optional sign, then as above
SscanfInt(str) ==
    LET neg == Len(str) > 0 /\ str[1] = Minus
        tok == DigitPrefix(IF neg THEN Tail(str) ELSE str)
    IN  IF Len(tok) = 0 THEN [ok |-> FALSE, val |-> 0]
        ELSE [ok |-> TRUE, val |-> IF neg THEN 0 - ParseInt(tok) ELSE ParseInt(tok)]

\* messages on stdout: logJSON writes a "log" message, writeJSON of a
\* set_control_response carries a status
LogMsg == [type |-> "log", status |-> ""]
Response(status) == [type |-> "set_control_response", status |-> status]

\* setControl(idStr, valueStr) with cam open: what it writes and the
\* cam.SetControlValue calls it makes; setOK is whether the driver accepts
\* the value.  (When the read-back cam.GetControl fails the response is
\* still one log message and one "success" response.)
setControl(idStr, valueStr, setOK) ==
    LET id == SscanfUint(idStr)
        value == SscanfInt(valueStr)
    IN  IF ~id.ok
        THEN [out |-> <<LogMsg, Response("error")>>, calls |-> <<>>]
        ELSE IF ~value.ok
        THEN [out |-> <<LogMsg, Response("error")>>, calls |-> <<>>]
        ELSE IF ~setOK
        THEN [out |-> <<LogMsg, Response("error")>>,
              calls |-> <<[id |-> id.val, value |-> value.val]>>]
        ELSE [out |-> <<LogMsg, Response("success")>>,
              calls |-> <<[id |-> id.val, value |-> value.val]>>]

\* scanner.Scan() reads a SET_CONTROL line: with len(parts) != 3 the
\* dispatcher answers itself, otherwise it calls setControl; then it scans
\* the next line
SetControlLine ==
    /\ Alive
    /\ pcMain = "scan"
    /\ \E parts \in ControlLines, setOK \in BOOLEAN :
          LET r == IF Len(parts) # 2
                   THEN [out |-> <<LogMsg, Response("error")>>, calls |-> <<>>]
                   ELSE setControl(parts[1], parts[2], setOK)
          IN  /\ ctlParts' = parts
              /\ ctlOut' = r.out
              /\ ctlCalls' = r.calls
    /\ UNCHANGED <<envVars, procVars, fbVars, activeClients, newFrameNotifyChan,
                   capVars, hVars, pcMain, mainFrame, savedFile, histVars>>
    /\ UNCHANGED <<heapVars, stdoutVars>>

\* scanner.Scan() returns false: listenStdin returns and main's deferred
\* cancel() runs
ScanEOF ==
    /\ Alive
    /\ pcMain = "scan"
    /\ cancelled' = TRUE
    /\ pcMain' = "camClose"
    /\ UNCHANGED <<envVars, exitStatus, fbVars, activeClients, newFrameNotifyChan,
                   capVars, hVars, mainFrame, savedFile, ctlParts, ctlOut, ctlCalls,
                   histVars>>
    /\ UNCHANGED <<heapVars, stdoutVars>>

\* cam.Start(ctx) ties the stream to ctx and the deferred cam.Close() stops
\* the device: once cancel() has run the capture source closes the channel
\* of cam.GetFrames().  As with DeviceLost, captureFrames sees it in its
\* select.
CancelClosesFrames ==
    /\ Alive
    /\ cancelled
    /\ pcCap = "select"
    /\ ~frameChanClosed
    /\ frameChanClosed' = TRUE
    /\ UNCHANGED <<produced, procVars, fbVars, activeClients,
                   newFrameNotifyChan, capVars, hVars, mainVars, histVars>>
    /\ UNCHANGED <<heapVars, stdoutVars>>

\* deferred cam.Close(), then main returns: the process ends with status 0
MainReturn ==
    /\ Alive
    /\ pcMain = "camClose"
    /\ ProcessExit(ExitCodeNormal)

----------------------------------------------------------------------------
(* The polling version of the pipeline (src/main.go): captureFrames        *)
(* resizes and stores every frame, and a /stream handler is woken by its   *)
(* own ticker.  It has no activeClients and no newFrameNotifyChan; the     *)
(* store, the chunk and the rest of the loops are the same code.           *)

\* resizedFrame, err := resizeMJPEGTurbo(...); if err != nil { ...;
\* frame.Release(); continue }
ResizeUngated ==
    /\ Alive
    /\ pcCap = "gate"
    /\ IF resizeMJPEGTurbo(capFrame).isNil
       THEN /\ OnResizeError
            /\ lastOutcome' = "failed"
            /\ failedBefore' = (lastOutcome = "failed")
       ELSE /\ capSD' = resizeMJPEGTurbo(capFrame)
            /\ pcCap' = "update"
            /\ UNCHANGED <<capFrame, released, lastOutcome, failedBefore,
                           fbVars, newFrameNotifyChan>>
    /\ UNCHANGED <<envVars, procVars, activeClients, hVars, mainVars,
                   doneFull, doneSD, want, sdSeq, hSeq, tally>>
    /\ UNCHANGED <<heapVars, stdoutVars>>

\* frame.Release() after frameBuffer.Update has returned
ReleaseAfterUpdate ==
    /\ Alive
    /\ pcCap = "notify"
    /\ pcCap' = "select"
    /\ capFrame' = <<>>
    /\ capSD' = NilSlice
    /\ released' = Release(released)
    /\ lastOutcome' = "stored"
    /\ failedBefore' = (lastOutcome = "failed")
    /\ UNCHANGED <<envVars, procVars, fbVars, activeClients, newFrameNotifyChan,
                   hVars, mainVars, doneFull, doneSD, want, sdSeq, hSeq, tally>>
    /\ UNCHANGED <<heapVars, stdoutVars>>

\* for range ticker.C: the handler's ticker fires
TickerTick(h) ==
    /\ Alive
    /\ pcH[h] = "wait"
    /\ pcH' = [pcH EXCEPT ![h] = "rlock"]
    /\ lastChunk' = [lastChunk EXCEPT ![h] = <<>>]
    /\ UNCHANGED <<envVars, procVars, fbVars, activeClients, newFrameNotifyChan,
                   capVars, connOK, hFrame, mainVars, histVars>>
    /\ UNCHANGED <<heapVars, stdoutVars>>

\* the five writes of one chunk and the flush, as in WriteChunk; when
\* w.Write(frame) fails the handler returns
WriteChunkPolled(h) ==
    /\ Alive
    /\ pcH[h] = "write"
    /\ \E k \in 0..NumWrites :
          /\ connOK[h] \/ k = 0
          /\ IF k >= FrameWrite
             THEN /\ pcH' = [pcH EXCEPT ![h] = "wait"]
                  /\ lastChunk' = [lastChunk EXCEPT ![h] =
                                      Concat(ChunkWrites(hFrame[h].bytes), k) \o <<FlushMark>>]
                  /\ connOK' = [connOK EXCEPT ![h] = k = NumWrites]
                  /\ tally' = Count(tally, "chunks")
                  /\ UNCHANGED hSeq
             ELSE /\ pcH' = [pcH EXCEPT ![h] = "idle"]
                  /\ lastChunk' = [lastChunk EXCEPT ![h] = <<>>]
                  /\ connOK' = [connOK EXCEPT ![h] = FALSE]
                  /\ hSeq' = [hSeq EXCEPT ![h] = Recorded(sdSeq, 0)]
                  /\ UNCHANGED tally
    /\ hFrame' = [hFrame EXCEPT ![h] = NilSlice]
    /\ UNCHANGED <<envVars, procVars, fbVars, activeClients, newFrameNotifyChan, capVars,
                   mainVars, doneFull, doneSD, want, lastOutcome, failedBefore, sdSeq>>
    /\ UNCHANGED <<heapVars, stdoutVars>>

----------------------------------------------------------------------------
(* main before listenStdin: the device is opened and configured, the       *)
(* stream started, then the goroutines are launched.  While main is at     *)
(* one of these steps captureFrames is "unstarted" and the HTTP server is  *)
(* "down".                                                                 *)

\* cam, err = device.Open(...); if err != nil { os.Exit(ExitCodeUSBError) }
OpenDevice ==
    /\ Alive
    /\ pcMain = "open"
    /\ \E ok \in BOOLEAN :
          IF ok
          THEN /\ pcMain' = "detect"
               /\ UNCHANGED <<envVars, procVars, fbVars, activeClients, newFrameNotifyChan,
                              capVars, hVars, mainFrame, savedFile, ctlParts, ctlOut,
                              ctlCalls, histVars, heapVars, stdoutVars>>
          ELSE ProcessExit(ExitCodeUSBError)

\* with -width and -height given the resolution is taken as it is;
\* otherwise getBestMJPEGResolution(cam), whose error ends the process
DetectResolution ==
    /\ Alive
    /\ pcMain = "detect"
    /\ \E specified \in BOOLEAN, ok \in BOOLEAN :
          IF specified \/ ok
          THEN /\ pcMain' = "setPixFormat"
               /\ UNCHANGED <<envVars, procVars, fbVars, activeClients, newFrameNotifyChan,
                              capVars, hVars, mainFrame, savedFile, ctlParts, ctlOut,
                              ctlCalls, histVars, heapVars, stdoutVars>>
          ELSE ProcessExit(ExitCodeUSBError)

\* if err := cam.SetPixFormat(...); err != nil { os.Exit(ExitCodeUSBError) }
SetPixFormat ==
    /\ Alive
    /\ pcMain = "setPixFormat"
    /\ \E ok \in BOOLEAN :
          IF ok
          THEN /\ pcMain' = "getPixFormat"
               /\ UNCHANGED <<envVars, procVars, fbVars, activeClients, newFrameNotifyChan,
                              capVars, hVars, mainFrame, savedFile, ctlParts, ctlOut,
                              ctlCalls, histVars, heapVars, stdoutVars>>
          ELSE ProcessExit(ExitCodeUSBError)

\* pixFmt, err := cam.GetPixFormat();
\* if err != nil { os.Exit(ExitCodeGenericError) }
GetPixFormat ==
    /\ Alive
    /\ pcMain = "getPixFormat"
    /\ \E ok \in BOOLEAN :
          IF ok
          THEN /\ pcMain' = "start"
               /\ UNCHANGED <<envVars, procVars, fbVars, activeClients, newFrameNotifyChan,
                              capVars, hVars, mainFrame, savedFile, ctlParts, ctlOut,
                              ctlCalls, histVars, heapVars, stdoutVars>>
          ELSE ProcessExit(ExitCodeGenericError)

\* logJSON("error", "Failed to start stream: ..."); os.Exit(ExitCodeUSBError)
OnStartErrorGeneric == ProcessExit(ExitCodeGenericError)
OnStartError == ProcessExit(ExitCodeUSBError)

\* if err := cam.Start(ctx); err != nil { ... }
StartStream ==
    /\ Alive
    /\ pcMain = "start"
    /\ \E ok \in BOOLEAN :
          IF ok
          THEN /\ pcMain' = "launch"
               /\ UNCHANGED <<envVars, procVars, fbVars, activeClients, newFrameNotifyChan,
                              capVars, hVars, mainFrame, savedFile, ctlParts, ctlOut,
                              ctlCalls, histVars, heapVars, stdoutVars>>
          ELSE OnStartError

\* go captureFrames(...); go startHTTPServer(...); listenStdin(...)
Launch ==
    /\ Alive
    /\ pcMain = "launch"
    /\ pcMain' = "scan"
    /\ pcCap' = "select"
    /\ pcH' = [h \in Handlers |-> "idle"]
    /\ UNCHANGED <<envVars, procVars, fbVars, activeClients, newFrameNotifyChan,
                   capFrame, capSD, released, connOK, hFrame, lastChunk,
                   mainFrame, savedFile, ctlParts, ctlOut, ctlCalls, histVars, heapVars, stdoutVars>>

\* the HTTP server has been started
ServerUp == \E h \in Handlers : pcH[h] \notin {"down", "gone"}

\* if err := http.ListenAndServe(":8080", nil); err != nil {
\*     os.Exit(ExitCodeGenericError) }
HTTPServerFails ==
    /\ Alive
    /\ ServerUp
    /\ ProcessExit(ExitCodeGenericError)

----------------------------------------------------------------------------
(* FrameBuffer with the identity of every buffer.  Each call runs under    *)
(* fb.mu, so a call is one step.                                           *)

Deref(ref) == IF ref = NilRef THEN NilSlice ELSE Slice(heap[ref])

\* make(): a buffer that nothing in use points to
FreshAddr(inUse) == CHOOSE a \in Addrs \ inUse : \A b \in Addrs \ inUse : a <= b

\* the heap after buffers are written, with the buffers nothing points to
\* any more collected
Collect(h, live) == [a \in Addrs |-> IF a \in live THEN h[a] ELSE <<>>]

\* fb.Update(frameFull, frameSD), the arguments given as buffers
UpdateAliasing(frameFull, frameSD) ==
    /\ fullRef' = frameFull
    /\ sdRef' = IF frameSD = NilRef THEN sdRef ELSE frameSD
    /\ heap' = heap
Update(frameFull, frameSD) ==
    LET kept == {CamBuf, ResizedBuf} \cup {gotRef[c] : c \in Readers}
                   \cup (IF frameSD = NilRef THEN {sdRef} ELSE {})
        newFull == FreshAddr(kept)
        newSD == FreshAddr(kept \cup {newFull})
        full == CopyInto(MakeBytes(Len(heap[frameFull])), heap[frameFull]).bytes
        sd == CopyInto(MakeBytes(Len(heap[frameSD])), heap[frameSD]).bytes
    IN  /\ fullRef' = newFull
        /\ sdRef' = IF frameSD = NilRef THEN sdRef ELSE newSD
        /\ heap' = Collect([a \in Addrs |->
                               IF a = newFull THEN full
                               ELSE IF a = newSD /\ frameSD # NilRef THEN sd
                               ELSE heap[a]],
                           kept \cup {newFull} \cup (IF frameSD = NilRef THEN {} ELSE {newSD}))

\* GetSD / GetFull by caller c on the slot: nil for a nil slot, otherwise a
\* buffer from make() with the slot's bytes copied in
GetAliasing(c, slot) ==
    /\ gotRef' = [gotRef EXCEPT ![c] = slot]
    /\ heap' = heap
Get(c, slot) ==
    LET kept == {CamBuf, ResizedBuf, fullRef, sdRef} \cup {gotRef[d] : d \in Readers \ {c}}
        new == FreshAddr(kept)
    IN  IF slot = NilRef
        THEN /\ gotRef' = [gotRef EXCEPT ![c] = NilRef]
             /\ heap' = Collect(heap, kept)
        ELSE /\ gotRef' = [gotRef EXCEPT ![c] = new]
             /\ heap' = Collect([heap EXCEPT ![new] = CopyOf(Slice(heap[slot])).bytes],
                                kept \cup {new})

\* the model's other variables, which these steps leave alone
pipelineVars == <<envVars, procVars, fbVars, activeClients, newFrameNotifyChan,
                  capVars, hVars, mainVars, histVars, stdoutVars>>

\* the device fills frame.Data with a frame and resizeMJPEGTurbo returns
\* its viewer version; after frame.Release() the device does so again,
\* into the same buffer
DeliverFrame ==
    /\ \E f \in {FrameA, FrameB} :
          /\ heap[CamBuf] # f
          /\ heap' = [heap EXCEPT ![CamBuf] = f,
                                  ![ResizedBuf] = resizeMJPEGTurbo(f).bytes]
    /\ UNCHANGED <<fullRef, sdRef, gotRef, storedFull, storedSD, gotVal, pipelineVars>>

\* frameBuffer.Update(frame.Data, resizedFrame)
UpdateCall ==
    /\ heap[CamBuf] # <<>>
    /\ Update(CamBuf, ResizedBuf)
    /\ storedFull' = Slice(heap[CamBuf])
    /\ storedSD' = Slice(heap[ResizedBuf])
    /\ UNCHANGED <<gotRef, gotVal, pipelineVars>>

\* frameBuffer.GetFull() called by saveFrame
GetFull ==
    /\ Get(0, fullRef)
    /\ gotVal' = [gotVal EXCEPT ![0] = storedFull]
    /\ UNCHANGED <<fullRef, sdRef, storedFull, storedSD, pipelineVars>>

\* frameBuffer.GetSD() called by a /stream handler
GetSD(h) ==
    /\ Get(h, sdRef)
    /\ gotVal' = [gotVal EXCEPT ![h] = storedSD]
    /\ UNCHANGED <<fullRef, sdRef, storedFull, storedSD, pipelineVars>>

\* a caller overwrites the buffer a Get returned to it
CallerMutate(c) ==
    /\ gotRef[c] # NilRef
    /\ heap[gotRef[c]] # Zeros(Len(heap[gotRef[c]]))
    /\ heap' = [heap EXCEPT ![gotRef[c]] = Zeros(Len(@))]
    /\ gotVal' = [gotVal EXCEPT ![c] = Slice(Zeros(Len(heap[gotRef[c]])))]
    /\ UNCHANGED <<fullRef, sdRef, gotRef, storedFull, storedSD, pipelineVars>>

----------------------------------------------------------------------------
(* writeJSON: every message on os.Stdout goes through it (logJSON builds   *)
(* a "log" message and calls it).                                          *)

\* the message types a goroutine writes
MsgTypes(g) == IF g = "listenStdin" THEN {"log", "set_control_response"} ELSE {"log"}

\* json.NewEncoder(os.Stdout).Encode(msg): the object with its "type"
\* first, the other fields, and the newline the encoder appends.  Each
\* piece carries the message it belongs to and its position in it.
EncodedLen == 3
Encode(msg) ==
    << [of |-> msg, k |-> 1, text |-> "{type:" \o msg.type],
       [of |-> msg, k |-> 2, text |-> ",fields"],
       [of |-> msg, k |-> 3, text |-> "}LF"] >>

\* the rest of the model's variables, which writeJSON leaves alone
programVars == <<envVars, procVars, fbVars, activeClients, newFrameNotifyChan,
                 capVars, hVars, mainVars, histVars, heapVars>>

\* a goroutine calls writeJSON(msgType, data), directly or through logJSON
WriteJSONCall(g) ==
    /\ pcW[g] = "idle"
    /\ wCount[g] < MaxMessages
    /\ \E t \in MsgTypes(g) :
          wMsg' = [wMsg EXCEPT ![g] = [type |-> t, from |-> g, n |-> wCount[g] + 1]]
    /\ wCount' = [wCount EXCEPT ![g] = @ + 1]
    /\ pcW' = [pcW EXCEPT ![g] = "lock"]
    /\ UNCHANGED <<stdoutMutex, wWritten, stdoutBytes, stderrLines, programVars>>

\* stdoutMutex.Lock() waits until the mutex is free
MutexFreeAlways(m) == TRUE
MutexFree(m) == ~m

\* stdoutMutex.Lock(); defer stdoutMutex.Unlock(); msg is built
StdoutLock(g) ==
    /\ pcW[g] = "lock"
    /\ MutexFree(stdoutMutex)
    /\ stdoutMutex' = TRUE
    /\ wWritten' = [wWritten EXCEPT ![g] = 0]
    /\ pcW' = [pcW EXCEPT ![g] = "encode"]
    /\ UNCHANGED <<wMsg, wCount, stdoutBytes, stderrLines, programVars>>

\* Encode writes the encoded message to os.Stdout; the file takes some or
\* all of what is left of it in one write
EncodeWrite(g) ==
    /\ pcW[g] = "encode"
    /\ \E n \in 1..(EncodedLen - wWritten[g]) :
          /\ stdoutBytes' = stdoutBytes \o SubSeq(Encode(wMsg[g]), wWritten[g] + 1,
                                                  wWritten[g] + n)
          /\ wWritten' = [wWritten EXCEPT ![g] = @ + n]
          /\ pcW' = [pcW EXCEPT ![g] = IF wWritten[g] + n = EncodedLen
                                       THEN "unlock" ELSE "encode"]
    /\ UNCHANGED <<stdoutMutex, wMsg, wCount, stderrLines, programVars>>

\* Encode returns an error (the value cannot be encoded, or a write to
\* os.Stdout fails): the fallback line goes to os.Stderr
EncodeFails(g) ==
    /\ pcW[g] = "encode"
    /\ stderrLines' = stderrLines + 1
    /\ pcW' = [pcW EXCEPT ![g] = "unlock"]
    /\ UNCHANGED <<stdoutMutex, wMsg, wCount, wWritten, stdoutBytes, programVars>>

\* writeJSON returns: the deferred stdoutMutex.Unlock()
WriteJSONReturn(g) ==
    /\ pcW[g] = "unlock"
    /\ stdoutMutex' = FALSE
    /\ pcW' = [pcW EXCEPT ![g] = "idle"]
    /\ UNCHANGED <<wMsg, wCount, wWritten, stdoutBytes, stderrLines, programVars>>

\* the steps of a goroutine inside writeJSON
InWriteJSON(g) == StdoutLock(g) \/ EncodeWrite(g) \/ EncodeFails(g) \/ WriteJSONReturn(g)

----------------------------------------------------------------------------
(* Specifications *)

Capture ==
    \/ CaptureRecv
    \/ CaptureGate
    \/ UpdateLock
    \/ UpdateCopyFull
    \/ UpdateCopySD
    \/ CaptureNotify

Streaming(h) ==
    \/ RecvNotify(h)
    \/ GetSDRLock(h)
    \/ GetSDRead(h)
    \/ WriteChunk(h)
    \/ Disconnect(h)

\* The steps of streamHandler alone. A write on a live connection can
\* already fail at any point (WriteChunk), so leaving the client's own
\* step out removes no behaviour of the handler, of the frame store or of
\* captureFrames.
HandlerLoop(h) ==
    \/ RecvNotify(h)
    \/ GetSDRLock(h)
    \/ GetSDRead(h)
    \/ WriteChunk(h)

\* The pipeline with its shutdown paths: production loop, connections
\* coming and going, loss of the device, end of stdin.
Next ==
    \/ DeviceLost
    \/ CaptureCancelled
    \/ CaptureRecvClosed
    \/ Capture
    \/ \E h \in Handlers : Attach(h)
    \/ \E h \in Handlers : CheckFlusher(h)
    \/ \E h \in Handlers : Streaming(h)
    \/ ScanEOF
    \/ MainReturn

Spec == Init /\ [][Next]_vars

\* The running system with CAPTURE commands arriving on stdin.
NextCmd ==
    \/ Capture
    \/ \E h \in Handlers : Attach(h)
    \/ \E h \in Handlers : CheckFlusher(h)
    \/ \E h \in Handlers : HandlerLoop(h)
    \/ GetFullRLock
    \/ GetFullRead
    \/ SaveWrite

SpecCmd == Init /\ [][NextCmd]_vars

\* The command loop of listenStdin with SET_CONTROL and CAPTURE lines.
NextControl ==
    \/ SetControlLine
    \/ GetFullRLock
    \/ GetFullRead
    \/ SaveWrite

SpecControl == Init /\ [][NextControl]_vars

\* The frame store and the buffers around it: the callers of Update and
\* of the Gets do what they like with their own buffers.
NextAlias ==
    \/ DeliverFrame
    \/ UpdateCall
    \/ GetFull
    \/ \E h \in Handlers : GetSD(h)
    \/ \E c \in Readers : CallerMutate(c)

SpecAlias == Init /\ [][NextAlias]_vars

\* All NumHandlers streaming loops are attached and waiting before the
\* first frame arrives, and no further connection is accepted.
InitBroadcast ==
    /\ produced = 0
    /\ frameChanClosed = FALSE
    /\ exitStatus = Running
    /\ cancelled = FALSE
    /\ mu = [writer |-> FALSE, readers |-> 0]
    /\ currentFullFrame = NilSlice
    /\ currentSDFrame = NilSlice
    /\ activeClients = NumHandlers
    /\ newFrameNotifyChan = 0
    /\ pcCap = "select"
    /\ capFrame = <<>>
    /\ capSD = NilSlice
    /\ released = 0
    /\ pcH = [h \in Handlers |-> "wait"]
    /\ connOK = [h \in Handlers |-> TRUE]
    /\ hFrame = [h \in Handlers |-> NilSlice]
    /\ lastChunk = [h \in Handlers |-> <<>>]
    /\ pcMain = "scan"
    /\ mainFrame = NilSlice
    /\ savedFile = NilSlice
    /\ ctlParts = <<>>
    /\ ctlOut = <<>>
    /\ ctlCalls = <<>>
    /\ doneFull = NilSlice
    /\ doneSD = NilSlice
    /\ want = [r \in Readers |-> NilSlice]
    /\ lastOutcome = "none"
    /\ failedBefore = FALSE
    /\ sdSeq = NotRecorded
    /\ hSeq = [h \in Handlers |-> NotRecorded]
    /\ tally = TallyOff
    /\ HeapInit
    /\ StdoutInit

NextBroadcast ==
    \/ Capture
    \/ \E h \in Handlers : Streaming(h)

SpecBroadcast == InitBroadcast /\ [][NextBroadcast]_vars

\* The same, with the position of every frame in the capture order
\* recorded along the way.
InitOrder ==
    /\ produced = 0
    /\ frameChanClosed = FALSE
    /\ exitStatus = Running
    /\ cancelled = FALSE
    /\ mu = [writer |-> FALSE, readers |-> 0]
    /\ currentFullFrame = NilSlice
    /\ currentSDFrame = NilSlice
    /\ activeClients = NumHandlers
    /\ newFrameNotifyChan = 0
    /\ pcCap = "select"
    /\ capFrame = <<>>
    /\ capSD = NilSlice
    /\ released = 0
    /\ pcH = [h \in Handlers |-> "wait"]
    /\ connOK = [h \in Handlers |-> TRUE]
    /\ hFrame = [h \in Handlers |-> NilSlice]
    /\ lastChunk = [h \in Handlers |-> <<>>]
    /\ pcMain = "scan"
    /\ mainFrame = NilSlice
    /\ savedFile = NilSlice
    /\ ctlParts = <<>>
    /\ ctlOut = <<>>
    /\ ctlCalls = <<>>
    /\ doneFull = NilSlice
    /\ doneSD = NilSlice
    /\ want = [r \in Readers |-> NilSlice]
    /\ lastOutcome = "none"
    /\ failedBefore = FALSE
    /\ sdSeq = 0
    /\ hSeq = [h \in Handlers |-> 0]
    /\ tally = TallyZero
    /\ HeapInit
    /\ StdoutInit

SpecOrder == InitOrder /\ [][NextBroadcast]_vars

\* Shutdown with the streaming loops attached: end of stdin, loss of the
\* device, and the return of main.
NextLive ==
    \/ DeviceLost
    \/ CaptureCancelled
    \/ CaptureRecvClosed
    \/ Capture
    \/ \E h \in Handlers : HandlerLoop(h)
    \/ ScanEOF
    \/ MainReturn

\* The scheduling the Go runtime gives captureFrames: a goroutine that can
\* run does run (its steps that need no lock, and a reader's step that ends
\* with RUnlock); a select with a ready case takes one, and picks among
\* ready cases at random, so a case that stays ready is taken; a pending
\* Lock keeps new readers out, so it is acquired.  Nothing is assumed about
\* the device, the clients, stdin or the time main takes between cancel()
\* and its return.
Fairness ==
    /\ WF_vars(CaptureGate)
    /\ SF_vars(UpdateLock)
    /\ WF_vars(UpdateCopyFull)
    /\ WF_vars(UpdateCopySD)
    /\ WF_vars(CaptureNotify)
    /\ SF_vars(CaptureCancelled \/ CaptureRecvClosed)
    /\ \A h \in Handlers : WF_vars(GetSDRead(h))

SpecLive == InitBroadcast /\ [][NextLive]_vars /\ Fairness

\* Clients going away under a device that streams without end.
NextDetach ==
    \/ CaptureRecvUncounted
    \/ CaptureGate
    \/ UpdateLock
    \/ UpdateCopyFull
    \/ UpdateCopySD
    \/ CaptureNotify
    \/ \E h \in Handlers : Streaming(h)

\* The device delivers a frame that decodes
DeliverDecodable == CaptureRecvUncounted /\ ~resizeMJPEGTurbo(capFrame').isNil

\* The scheduling of captureFrames and of the streaming loops, each
\* goroutine being at one of its steps at a time: a runnable goroutine
\* runs and a pending Lock is acquired (as above); the runtime wakes the receivers blocked on a channel in the order in
\* which they blocked, so a loop that stays in its receive gets a
\* notification if notifications keep being sent; a reader waiting for
\* RLock gets it when the writer unlocks; a runnable loop runs.  The
\* device is taken to keep delivering frames that decode.  Nothing is
\* assumed about the clients.
FairnessDetach ==
    /\ SF_vars(CaptureGate \/ UpdateLock \/ UpdateCopyFull \/ UpdateCopySD \/ CaptureNotify)
    /\ SF_vars(DeliverDecodable)
    /\ \A h \in Handlers : SF_vars(HandlerLoop(h))

SpecDetach == InitBroadcast /\ [][NextDetach]_vars /\ FairnessDetach

\* End of stdin with the device in order: the frame channel closes only
\* because of the cancellation.
NextShutdown ==
    \/ Capture
    \/ \E h \in Handlers : HandlerLoop(h)
    \/ ScanEOF
    \/ CancelClosesFrames
    \/ CaptureCancelled
    \/ CaptureRecvClosed
    \/ MainReturn

SpecShutdown == InitBroadcast /\ [][NextShutdown]_vars

\* The process from the start of main: startup, the running system with
\* its connections, loss of the device, failure of the HTTP server, end of
\* stdin.
InitStartup ==
    /\ produced = 0
    /\ frameChanClosed = FALSE
    /\ exitStatus = Running
    /\ cancelled = FALSE
    /\ mu = [writer |-> FALSE, readers |-> 0]
    /\ currentFullFrame = NilSlice
    /\ currentSDFrame = NilSlice
    /\ activeClients = 0
    /\ newFrameNotifyChan = 0
    /\ pcCap = "unstarted"
    /\ capFrame = <<>>
    /\ capSD = NilSlice
    /\ released = 0
    /\ pcH = [h \in Handlers |-> "down"]
    /\ connOK = [h \in Handlers |-> TRUE]
    /\ hFrame = [h \in Handlers |-> NilSlice]
    /\ lastChunk = [h \in Handlers |-> <<>>]
    /\ pcMain = "open"
    /\ mainFrame = NilSlice
    /\ savedFile = NilSlice
    /\ ctlParts = <<>>
    /\ ctlOut = <<>>
    /\ ctlCalls = <<>>
    /\ doneFull = NilSlice
    /\ doneSD = NilSlice
    /\ want = [r \in Readers |-> NilSlice]
    /\ lastOutcome = "none"
    /\ failedBefore = FALSE
    /\ sdSeq = NotRecorded
    /\ hSeq = [h \in Handlers |-> NotRecorded]
    /\ tally = TallyOff
    /\ HeapInit
    /\ StdoutInit

NextStartup ==
    \/ OpenDevice
    \/ DetectResolution
    \/ SetPixFormat
    \/ GetPixFormat
    \/ StartStream
    \/ Launch
    \/ HTTPServerFails
    \/ DeviceLost
    \/ Capture
    \/ \E h \in Handlers : Attach(h)
    \/ \E h \in Handlers : CheckFlusher(h)
    \/ \E h \in Handlers : HandlerLoop(h)
    \/ ScanEOF
    \/ CancelClosesFrames
    \/ CaptureCancelled
    \/ CaptureRecvClosed
    \/ MainReturn

SpecStartup == InitStartup /\ [][NextStartup]_vars

\* The polling version with its handlers connected and waiting for their
\* tickers before the first frame arrives.
InitPolled ==
    /\ produced = 0
    /\ frameChanClosed = FALSE
    /\ exitStatus = Running
    /\ cancelled = FALSE
    /\ mu = [writer |-> FALSE, readers |-> 0]
    /\ currentFullFrame = NilSlice
    /\ currentSDFrame = NilSlice
    /\ activeClients = 0
    /\ newFrameNotifyChan = 0
    /\ pcCap = "select"
    /\ capFrame = <<>>
    /\ capSD = NilSlice
    /\ released = 0
    /\ pcH = [h \in Handlers |-> "wait"]
    /\ connOK = [h \in Handlers |-> TRUE]
    /\ hFrame = [h \in Handlers |-> NilSlice]
    /\ lastChunk = [h \in Handlers |-> <<>>]
    /\ pcMain = "scan"
    /\ mainFrame = NilSlice
    /\ savedFile = NilSlice
    /\ ctlParts = <<>>
    /\ ctlOut = <<>>
    /\ ctlCalls = <<>>
    /\ doneFull = NilSlice
    /\ doneSD = NilSlice
    /\ want = [r \in Readers |-> NilSlice]
    /\ lastOutcome = "none"
    /\ failedBefore = FALSE
    /\ sdSeq = NotRecorded
    /\ hSeq = [h \in Handlers |-> NotRecorded]
    /\ tally = TallyOff
    /\ HeapInit
    /\ StdoutInit

NextPolled ==
    \/ CaptureRecv
    \/ ResizeUngated
    \/ UpdateLock
    \/ UpdateCopyFull
    \/ UpdateCopySD
    \/ ReleaseAfterUpdate
    \/ \E h \in Handlers : TickerTick(h)
    \/ \E h \in Handlers : GetSDRLock(h)
    \/ \E h \in Handlers : GetSDRead(h)
    \/ \E h \in Handlers : WriteChunkPolled(h)

SpecPolled == InitPolled /\ [][NextPolled]_vars

\* The goroutines writing JSON messages to os.Stdout.  A goroutine that is
\* inside writeJSON keeps running, and sync.Mutex hands the mutex to a
\* goroutine that has waited for it (its starvation mode).
NextStdout ==
    \/ \E g \in Writers : WriteJSONCall(g)
    \/ \E g \in Writers : StdoutLock(g)
    \/ \E g \in Writers : EncodeWrite(g)
    \/ \E g \in Writers : EncodeFails(g)
    \/ \E g \in Writers : WriteJSONReturn(g)

FairnessStdout == \A g \in Writers : SF_vars(InWriteJSON(g))

SpecStdout == Init /\ [][NextStdout]_vars /\ FairnessStdout

----------------------------------------------------------------------------
(* Properties *)

\* the process is still running after the step
StillRunning == exitStatus' = Running

\* captureFrames finishes the step it is at
CapStepsFrom(pc) == pcCap = pc /\ pcCap' # pc /\ StillRunning

\* the chunk carries this frame as its payload
Carries(chunk, frame) ==
    \E i \in 1..Len(chunk) : chunk[i].t = "raw" /\ chunk[i].b = frame.bytes

\* C1: with N >= 2 streaming loops attached and connected while the frames
\* are produced, every loop writes a chunk carrying the final viewer frame.
\* Stated at the states where production has ended, no notification is
\* pending and every loop waits on newFrameNotifyChan with a working
\* connection: no loop can write again from there, so each must already
\* have written the frame now in the viewer slot.
ProductionEnded ==
    /\ produced = MaxFrames
    /\ pcCap = "select"
    /\ newFrameNotifyChan = 0
    /\ ~currentSDFrame.isNil
AllWaitingConnected == \A h \in Handlers : pcH[h] = "wait" /\ connOK[h]
C1_EveryLoopWritesFinalFrame ==
    (NumHandlers >= 2 /\ ProductionEnded /\ AllWaitingConnected)
        => \A h \in Handlers : Carries(lastChunk[h], currentSDFrame)

\* C2: every GetSD and GetFull returns exactly what the latest Update that
\* had returned when the reader took the lock stored in that slot (nil if
\* there was none): never a zero-filled or half-copied buffer.
C2_ReadsReturnWholeFrames ==
    [][/\ \A h \in Handlers :
             (pcH[h] = "read" /\ pcH'[h] # "read" /\ StillRunning) => hFrame'[h] = want[h]
       /\ (pcMain = "saveRead" /\ pcMain' # "saveRead" /\ StillRunning)
             => mainFrame' = want[0]]_vars
C2_Witness ==
    /\ pcMain = "saveWrite"
    /\ mainFrame = Slice(FrameB)
    /\ \E h \in Handlers : pcH[h] = "write" /\ hFrame[h] = resizeMJPEGTurbo(FrameA)

\* C3: when captureFrames reads activeClients = 0 for a non-nil frame, the
\* frame is not resized, currentSDFrame is unchanged and nothing is sent on
\* newFrameNotifyChan: the loop goes straight back to its select.
C3_NoClientsNoTranscode ==
    [][(CapStepsFrom("gate") /\ activeClients = 0)
          => /\ pcCap' = "select"
             /\ lastOutcome' = "dropped"
             /\ capSD' = NilSlice
             /\ currentSDFrame' = currentSDFrame
             /\ newFrameNotifyChan' = newFrameNotifyChan]_vars
C3_Witness ==
    /\ lastOutcome = "dropped"
    /\ pcCap = "select"
    /\ activeClients = 0
    /\ ~currentSDFrame.isNil

\* C4: when activeClients is zero as a non-nil frame arrives, the full
\* resolution slot is still updated to that frame.
C4_FullSlotUpdatedWithoutClients ==
    [][(CapStepsFrom("gate") /\ activeClients = 0)
          => currentFullFrame' = Slice(capFrame)]_vars

\* C5: activeClients is the number of /stream handlers that have started
\* and not returned, on every exit path; it is never negative.
Started == {h \in Handlers : pcH[h] \in {"check", "wait", "rlock", "read", "write"}}
C5_ActiveClientsCountsHandlers ==
    /\ activeClients = Cardinality(Started)
    /\ activeClients >= 0
C5_Witness ==
    /\ activeClients = 1
    /\ \E h \in Handlers : pcH[h] = "idle" /\ ~connOK[h]
    /\ \E h \in Handlers : pcH[h] = "wait"

\* C6: a resize failure leaves captureFrames running and both slots
\* unchanged, and a later frame that arrives with activeClients > 0 and
\* resizes is stored in both slots and notified as usual.
C6_ResizeFailureIsPerFrame ==
    [][/\ (CapStepsFrom("gate") /\ activeClients > 0 /\ resizeMJPEGTurbo(capFrame).isNil)
          => /\ pcCap' = "select"
             /\ currentFullFrame' = currentFullFrame
             /\ currentSDFrame' = currentSDFrame
             /\ newFrameNotifyChan' = newFrameNotifyChan
       /\ (CapStepsFrom("gate") /\ activeClients > 0 /\ ~resizeMJPEGTurbo(capFrame).isNil)
          => pcCap' = "update"
       /\ CapStepsFrom("notify")
          => /\ pcCap' = "select"
             /\ currentFullFrame = Slice(capFrame)
             /\ currentSDFrame = resizeMJPEGTurbo(capFrame)
             /\ newFrameNotifyChan' = 1]_vars
C6_Witness ==
    /\ failedBefore
    /\ lastOutcome = "stored"
    /\ pcCap = "select"
    /\ newFrameNotifyChan = 1
    /\ ~currentSDFrame.isNil

\* C7: when the frame channel is closed while captureFrames waits in its
\* select and no cancellation has been requested, the step captureFrames
\* takes ends the process with ExitCodeUSBError; it does not return.
C7_ClosedChannelExitsUSBError ==
    [][(pcCap = "select" /\ frameChanClosed /\ ~cancelled /\ pcCap' # "select")
          => /\ exitStatus' = ExitCodeUSBError
             /\ exitStatus' \notin {ExitCodeNormal, ExitCodeGenericError}
             /\ pcCap' # "returned"]_vars
C7_Witness ==
    /\ exitStatus = ExitCodeUSBError
    /\ frameChanClosed
    /\ ~cancelled

\* C8: newFrameNotifyChan never holds more than one notification; every
\* send leaves exactly one pending, whether or not one was pending before,
\* and the send is always possible (it never waits for a receiver).
C8_NotificationsCoalesce ==
    /\ []((pcCap = "notify" /\ newFrameNotifyChan = NotifyCap) => ENABLED CaptureNotify)
    /\ [][/\ newFrameNotifyChan' <= 1
          /\ CapStepsFrom("notify") => (pcCap' = "select" /\ newFrameNotifyChan' = 1)]_vars
C8_Witness ==
    /\ lastOutcome = "coalesced"
    /\ newFrameNotifyChan = 1
    /\ pcCap = "select"

\* the tokens up to and including the frame bytes of a part for this frame
IsPartBody(c, frame) ==
    /\ Len(c) >= 6
    /\ c[1] = Lit("--frame\r\n")
    /\ c[2] = Lit("Content-Type: image/jpeg\r\n")
    /\ c[3] = Lit("Content-Length: ")
    /\ c[4].t = "num"
    /\ ParseInt(c[4].d) = Len(frame)
    /\ c[5] = Lit("\r\n\r\n")
    /\ c[6] = Raw(frame)

\* C9: every part a handler writes on a working connection is the boundary
\* line, the Content-Type line, a Content-Length equal to the byte length
\* of the frame that follows, the frame bytes returned by the one GetSD
\* call of the iteration, a trailing CRLF, then a flush.  (When the
\* connection breaks at the trailing CRLF the part ends after the frame.)
C9_ChunkFormat ==
    [][\A h \in Handlers :
          (pcH[h] = "write" /\ pcH'[h] = "wait" /\ StillRunning)
             => /\ IsPartBody(lastChunk'[h], hFrame[h].bytes)
                /\ IF connOK'[h]
                   THEN /\ Len(lastChunk'[h]) = 8
                        /\ lastChunk'[h][7] = Lit("\r\n")
                        /\ lastChunk'[h][8] = FlushMark
                   ELSE /\ Len(lastChunk'[h]) = 7
                        /\ lastChunk'[h][7] = FlushMark]_vars
C9_Witness ==
    \E h \in Handlers :
        /\ pcH[h] = "wait"
        /\ connOK[h]
        /\ Len(lastChunk[h]) = 8
        /\ lastChunk[h][4] = Num(<<1, 1>>)
        /\ Len(lastChunk[h][6].b) = 11

\* C10: whenever a reader can look at the store (the exclusive lock is not
\* held), a non-nil viewer slot comes with a non-nil full-resolution slot.
C10_ViewerImpliesFull ==
    ~mu.writer => (~currentSDFrame.isNil => ~currentFullFrame.isNil)
C10_Witness ==
    /\ ~mu.writer
    /\ ~currentSDFrame.isNil
    /\ ~currentFullFrame.isNil

\* C11: every non-nil frame captureFrames receives is released exactly once
\* before the loop waits for the next frame, on the store path, the
\* no-client discard path and the resize-failure path; it is not released
\* while the loop still works on it, and never twice.
C11_ReleasedExactlyOnce ==
    [][/\ released' <= 1
       /\ (pcCap \in {"gate", "notify"} /\ pcCap' = "select" /\ StillRunning)
             => (released = 0 /\ released' = 1)
       /\ (StillRunning /\ pcCap' \in {"gate", "update", "copyFull", "copySD", "notify"})
             => released' = 0]_vars
C11_Witness ==
    /\ pcCap = "select"
    /\ released = 1
    /\ lastOutcome = "dropped"
    /\ failedBefore

\* C12: GetFull returns nil while no Update has completed, and otherwise
\* the full-resolution bytes given to the latest completed Update; frames
\* that captureFrames receives and discards in between do not change what
\* it returns, and it can run at any point of the production loop.
C12_GetFullReturnsLatestUpdate ==
    [][/\ (pcMain = "saveRead" /\ pcMain' # "saveRead" /\ StillRunning)
             => /\ mainFrame' = doneFull
                /\ (lastOutcome \in {"stored", "coalesced"}) => ~mainFrame'.isNil
       /\ (CapStepsFrom("gate") /\ pcCap' = "select")
             => (doneFull' = doneFull /\ currentFullFrame' = currentFullFrame)]_vars
C12_Witness ==
    /\ pcMain = "saveWrite"
    /\ mainFrame = Slice(FrameA)
    /\ lastOutcome = "dropped"
    /\ produced = MaxFrames

\* C13: a CAPTURE command that arrives after captureFrames has consumed at
\* least one non-empty frame finds a full-resolution frame to save, whether
\* or not a viewer is or was attached: when saveFrame's GetFull takes the
\* read lock, the full-resolution slot holds a frame.
C13_CaptureSavesCurrentFrame ==
    [][(pcMain = "scan" /\ pcMain' = "saveRead" /\ lastOutcome # "none")
          => ~currentFullFrame.isNil]_vars

\* an argument that is a number: digits only, after an optional sign where
\* the target is signed
IsNumeric(str, signed) ==
    LET body == IF signed /\ Len(str) > 0 /\ str[1] = Minus THEN Tail(str) ELSE str
    IN  Len(body) > 0 /\ \A i \in 1..Len(body) : IsDigit(body[i])
Malformed(parts) ==
    \/ Len(parts) # 2
    \/ ~IsNumeric(parts[1], FALSE)
    \/ ~IsNumeric(parts[2], TRUE)
ResponsesIn(out) == {i \in 1..Len(out) : out[i].type = "set_control_response"}

\* C14: a SET_CONTROL line with the wrong number of arguments or with a
\* non-numeric id or value gets exactly one response, of status "error",
\* makes no cam.SetControlValue call, leaves the process running and the
\* dispatcher at its scan of the next line.
C14_MalformedSetControlRejected ==
    [][(/\ pcMain = "scan"
        /\ <<ctlParts, ctlOut, ctlCalls>>' # <<ctlParts, ctlOut, ctlCalls>>
        /\ ctlOut' # <<>>
        /\ Malformed(ctlParts'))
          => /\ Cardinality(ResponsesIn(ctlOut')) = 1
             /\ \A i \in ResponsesIn(ctlOut') : ctlOut'[i].status = "error"
             /\ ctlCalls' = <<>>
             /\ StillRunning
             /\ pcMain' = "scan"]_vars

\* C15: once ctx is cancelled captureFrames comes to an end: it returns
\* (or the process ends under it); it does not stay blocked on the frame
\* channel, on the store's lock or on the notification send.
C15_CancelledCaptureReturns ==
    cancelled ~> (pcCap \in {"returned", "gone"})
C15_Witness ==
    /\ cancelled
    /\ Alive
    /\ pcCap = "returned"
    /\ produced < MaxFrames
    /\ \E h \in Handlers : pcH[h] = "rlock"

\* C16: after ctx has been cancelled no streaming loop writes a further
\* chunk on its connection.
C16_NoChunkAfterCancel ==
    [][cancelled => \A h \in Handlers :
          ~(pcH[h] = "write" /\ pcH'[h] = "wait" /\ lastChunk'[h] # <<>>)]_vars

\* C17: when a handler's write fails and it returns, the only shared state
\* that changes is activeClients, which goes down by one: the store, the
\* notification channel, captureFrames and every other handler (its
\* position, connection, frame in hand and last chunk) are as before, and
\* the production gate stays open while another loop is attached.
C17_WriteFailureIsContained ==
    [][\A h \in Handlers :
          (pcH[h] = "write" /\ pcH'[h] = "idle" /\ StillRunning)
             => /\ activeClients' = activeClients - 1
                /\ UNCHANGED <<fbVars, newFrameNotifyChan, capVars, mainVars, envVars>>
                /\ \A g \in Handlers \ {h} :
                      /\ pcH'[g] = pcH[g]
                      /\ connOK'[g] = connOK[g]
                      /\ hFrame'[g] = hFrame[g]
                      /\ lastChunk'[g] = lastChunk[g]
                /\ (\E g \in Handlers \ {h} : InLoop(g)) => HasClients(activeClients')]_vars
C17_Witness ==
    \E h, g \in Handlers :
        /\ pcH[h] = "idle"
        /\ ~connOK[h]
        /\ pcH[g] = "write"
        /\ hFrame[g] = currentSDFrame
        /\ activeClients = 1

\* C18: frames enter the store in capture order, and each connection is
\* "latest wins": the frame stored by an Update is the one captureFrames
\* received last, later in the capture order than the one it replaces; a
\* GetSD read returns the viewer frame stored last, never one earlier in
\* the capture order than the frame read before on that connection; and
\* the chunk written carries the frame of that read.
C18_LatestWins ==
    [][/\ CapStepsFrom("copySD")
             => /\ currentSDFrame' = resizeMJPEGTurbo(capFrame)
                /\ sdSeq' = produced
                /\ sdSeq' > sdSeq
       /\ (StillRunning /\ pcCap # "copySD") => sdSeq' = sdSeq
       /\ \A h \in Handlers :
             /\ (pcH[h] = "read" /\ pcH'[h] = "write")
                   => /\ hFrame'[h] = doneSD
                      /\ hSeq'[h] = sdSeq
                      /\ hSeq'[h] >= hSeq[h]
             /\ (pcH[h] = "write" /\ pcH'[h] = "wait")
                   => /\ Carries(lastChunk'[h], hFrame[h])
                      /\ hSeq'[h] = hSeq[h]]_vars
C18_Witness ==
    \E h, g \in Handlers :
        /\ pcH[h] = "wait"
        /\ hSeq[h] = MaxFrames
        /\ Carries(lastChunk[h], currentSDFrame)
        /\ pcH[g] = "write"
        /\ hSeq[g] < hSeq[h]
        /\ sdSeq = MaxFrames

\* C19: the store shares no buffer with its callers.  Whatever the device
\* writes into frame.Data after Update has returned and whatever a caller
\* writes into a buffer a Get returned, the two slots hold the bytes given
\* to the last Update, and every caller's buffer holds what its Get
\* returned or what that caller itself wrote since.
C19_StoreNeverAliases ==
    /\ Deref(fullRef) = storedFull
    /\ Deref(sdRef) = storedSD
    /\ \A c \in Readers : Deref(gotRef[c]) = gotVal[c]
    /\ {fullRef, sdRef} \cap ({CamBuf, ResizedBuf} \cup {gotRef[c] : c \in Readers}) \subseteq {NilRef}
    /\ \A c, d \in Readers : (c # d /\ gotRef[c] = gotRef[d]) => gotRef[c] = NilRef
C19_Witness ==
    /\ storedFull = Slice(FrameA)
    /\ heap[CamBuf] = FrameB
    /\ gotVal[0] = Slice(Zeros(Len(FrameA)))
    /\ \E h \in Handlers : gotVal[h] = resizeMJPEGTurbo(FrameA)
    /\ Deref(fullRef) = Slice(FrameA)

\* C20: past the Flusher check a handler returns if and only if a write on
\* its connection fails: it returns only with a failed connection, and a
\* failure of any write of a chunk ends the loop at that chunk.
C20_ReturnsIffWriteFails ==
    [][\A h \in Handlers :
          /\ (InLoop(h) /\ pcH'[h] = "idle" /\ StillRunning) => ~connOK'[h]
          /\ (pcH[h] = "write" /\ ~connOK'[h] /\ StillRunning) => pcH'[h] = "idle"]_vars

C22_EOFEndsWithStatusZero ==
    cancelled => exitStatus \in {Running, ExitCodeNormal}

\* captureFrames is working on a frame it has received
CapBusy == pcCap \in {"gate", "update", "copyFull", "copySD", "notify"}

\* C23: once captureFrames has received a frame it gets back to waiting
\* for the next one (or comes to an end), whatever the streaming loops do:
\* they may stay in a client write for ever and leave the notification
\* undrained.  Its steps other than the Lock of Update are always
\* possible, and whoever holds the store's lock is at a step that is
\* possible and releases it.
C23_ProductionNeverWaitsForLoops ==
    /\ CapBusy ~> (pcCap \in {"select", "returned", "gone"})
    /\ []((Alive /\ pcCap = "gate") => ENABLED CaptureGate)
    /\ []((Alive /\ pcCap = "copyFull") => ENABLED UpdateCopyFull)
    /\ []((Alive /\ pcCap = "copySD") => ENABLED UpdateCopySD)
    /\ []((Alive /\ pcCap = "notify") => ENABLED CaptureNotify)
    /\ []((Alive /\ pcCap = "update" /\ ~ENABLED UpdateLock)
             => \E h \in Handlers : pcH[h] = "read" /\ ENABLED GetSDRead(h))
C23_Witness ==
    /\ pcCap = "select"
    /\ produced = MaxFrames
    /\ lastOutcome = "stored"
    /\ newFrameNotifyChan = 1
    /\ \E h \in Handlers : pcH[h] = "write"
    /\ \A h \in Handlers : pcH[h] \in {"write", "wait"}

\* goroutines inside a Get, between RLock and RUnlock
ReadersInside ==
    Cardinality({h \in Handlers : pcH[h] = "read"}) + (IF pcMain = "saveRead" THEN 1 ELSE 0)

\* C24: fb.mu is held only inside Update and inside the Gets.  It is not
\* held by captureFrames while it waits on the frame channel or sends the
\* notification, by a handler while it waits on newFrameNotifyChan or
\* writes to its connection, or by the command loop while it reads stdin
\* or writes the snapshot file: the holders are exactly the goroutines
\* at the copy steps.
C24_NoLockAcrossSuspension ==
    /\ mu.writer <=> pcCap \in {"copyFull", "copySD"}
    /\ mu.readers = ReadersInside
    /\ pcCap \in {"select", "notify"} => ~mu.writer
    /\ (/\ \A h \in Handlers : pcH[h] \in {"idle", "check", "wait", "rlock", "write", "gone"}
        /\ pcMain \in {"scan", "saveWrite", "camClose", "gone"})
          => mu.readers = 0
C24_Witness ==
    /\ pcMain = "saveRead"
    /\ mu.readers = 2
    /\ pcCap = "update"
    /\ \E h \in Handlers : pcH[h] = "wait"

\* a failure of device.Open, of the resolution detection, of SetPixFormat
\* or of Start ends the process with ExitCodeUSBError while captureFrames,
\* the HTTP server and the command loop have not been started
StartupFailureExits ==
    (pcMain \in {"open", "detect", "setPixFormat", "start"} /\ exitStatus' # Running)
        => /\ exitStatus' = ExitCodeUSBError
           /\ pcCap = "unstarted"
           /\ \A h \in Handlers : pcH[h] = "down"
\* a failure of the HTTP server ends it with ExitCodeGenericError
ServerFailureExits ==
    HTTPServerFails => exitStatus' = ExitCodeGenericError

C26_EmptyFrameWritesNothing ==
    [][\A h \in Handlers :
          (pcH[h] = "read" /\ pcH'[h] # "read" /\ currentSDFrame.isNil /\ StillRunning)
             => /\ pcH'[h] = "wait"
                /\ hFrame'[h].isNil
                /\ lastChunk[h] = <<>>
                /\ lastChunk'[h] = <<>>
                /\ connOK'[h] = connOK[h]
                /\ UNCHANGED <<currentFullFrame, currentSDFrame, activeClients,
                               newFrameNotifyChan, capVars>>]_vars
C26_Witness ==
    \E h, g \in Handlers :
        /\ pcH[h] = "read"
        /\ currentSDFrame.isNil
        /\ pcCap = "update"
        /\ h # g
        /\ pcH[g] = "wait"
        /\ lastOutcome = "failed"

C28_NotificationImpliesViewerFrame ==
    /\ [](newFrameNotifyChan > 0 => ~currentSDFrame.isNil)
    /\ [](\A h \in Handlers : pcH[h] \in {"rlock", "read"} => ~currentSDFrame.isNil)
    /\ [][\A h \in Handlers :
             (pcH[h] = "read" /\ pcH'[h] # "read" /\ StillRunning)
                => (pcH'[h] = "write" /\ ~hFrame'[h].isNil)]_vars
C28_Witness ==
    /\ newFrameNotifyChan = 1
    /\ ~currentSDFrame.isNil
    /\ \E h \in Handlers : pcH[h] = "write" /\ ~hFrame[h].isNil
    /\ \E h \in Handlers : pcH[h] = "wait"

\* the two slots of the frame store belong together: both nil, or the
\* viewer slot is the transcode of the frame in the full-resolution slot
MatchingPair(full, sd) ==
    \/ full.isNil /\ sd.isNil
    \/ ~full.isNil /\ sd = resizeMJPEGTurbo(full.bytes)

\* C29: whenever fb.mu is not write-locked the two slots are a matching
\* pair, and what a reader takes out under the read lock belongs to the
\* pair stored at that moment: GetSD returns the transcode of the stored
\* full-resolution frame, GetFull the stored full-resolution frame.
C29_SlotsAreMatchingPair ==
    /\ [](~mu.writer => MatchingPair(currentFullFrame, currentSDFrame))
    /\ [][\A h \in Handlers :
             (pcH[h] = "read" /\ pcH'[h] # "read" /\ StillRunning)
                => MatchingPair(currentFullFrame, hFrame'[h])]_vars
    /\ [][(pcMain = "saveRead" /\ pcMain' = "saveWrite")
                => MatchingPair(mainFrame', currentSDFrame)]_vars
C29_Witness ==
    /\ ~mu.writer
    /\ mu.readers = 2
    /\ pcMain = "saveRead"
    /\ \E h \in Handlers : pcH[h] = "read"
    /\ currentFullFrame = Slice(FrameB)
    /\ currentSDFrame = resizeMJPEGTurbo(FrameB)
    /\ lastOutcome = "failed"

\* the goroutines between stdoutMutex.Lock() and the deferred Unlock
InsideWriteJSON == {g \in Writers : pcW[g] \in {"encode", "unlock"}}

\* every piece on os.Stdout that is not the first of its message follows
\* the piece before it of the same message
Contiguous(out) ==
    \A i \in 1..Len(out) :
        out[i].k > 1 => /\ i > 1
                        /\ out[i - 1].of = out[i].of
                        /\ out[i - 1].k = out[i].k - 1

\* a message starts on os.Stdout at the start of a line: after a whole
\* message, or after one whose encoding failed part-way
StartsOnNewLine(out) ==
    \A i \in 2..Len(out) :
        out[i].k = 1 => \/ out[i - 1].k = EncodedLen
                        \/ stderrLines > 0

\* C30: the messages of concurrent goroutines never interleave on
\* os.Stdout: at most one goroutine is between stdoutMutex.Lock() and the
\* deferred Unlock, the mutex is locked exactly while one is, the pieces of
\* a message are contiguous on os.Stdout and a message starts after the
\* end of the one before; every goroutine that waits for the mutex gets
\* it and every call of writeJSON returns, also when Encode fails.
C30_StdoutMessagesNeverInterleave ==
    /\ [](Cardinality(InsideWriteJSON) <= 1)
    /\ [](stdoutMutex <=> InsideWriteJSON # {})
    /\ [](Contiguous(stdoutBytes) /\ StartsOnNewLine(stdoutBytes))
    /\ \A g \in Writers : (pcW[g] = "lock") ~> (pcW[g] = "encode")
    /\ \A g \in Writers : (pcW[g] # "idle") ~> (pcW[g] = "idle")
C30_Witness ==
    /\ pcW["captureFrames"] = "idle"
    /\ wCount["captureFrames"] = 1
    /\ wWritten["captureFrames"] = 2
    /\ stderrLines = 1
    /\ pcW["stream"] = "encode"
    /\ wWritten["stream"] = 1
    /\ pcW["listenStdin"] = "lock"
    /\ wMsg["listenStdin"].type = "set_control_response"
    /\ Len(stdoutBytes) = 3

====
